---- MODULE Spec2Model ----
(***************************************************************************)
(* Model of ush/timeseries.py: main(), one plot_time_series call and the   *)
(* rendering loop of plot_time_series.                                     *)
(*                                                                         *)
(*   Spec        main(): configuration checks and the variable / level /   *)
(*               domain loop, each plot_time_series call one step          *)
(*   SpecCall    one plot_time_series call, stage by stage                 *)
(*   SpecRender  reference detection and the model loop (lines 245-520)    *)
(*               on pivot tables drawn from bounded sets                   *)
(*   SpecSave    naming and saving the file (lines 677-738) on parameters  *)
(*               and locals drawn from bounded sets                        *)
(***************************************************************************)
EXTENDS Integers, Sequences, FiniteSets, TLC

VARIABLES
    \* ---- one plot_time_series call (SpecCall)
    pc,                   \* position in plot_time_series
    df,                   \* the dataframe: a set of rows
    level,                \* parameter level
    heap,                 \* list / tuple objects, by object id
    ref,                  \* local names model_list, date_hours, ... -> object id
    sample_equalization,  \* the local flag (parameter, cleared at line 147)
    bool_success,         \* what equalize_samples reported
    bound,                \* local names that have been assigned
    tables,               \* local pivot table names -> the table each is bound to
    fig,                  \* "none", "open" (plotter.get_plots), "closed" (plt.close)
    exc,                  \* exception that ended the call ("" when none)
    stages,               \* pipeline stages executed so far, in order
    passed_flag,          \* sample_equalization values passed to process_stats / get_pivot_tables
    pivot_empty,          \* whether get_pivot_tables produced empty tables
    saved,                \* paths written by fig.savefig
    annotated,            \* whether the '#SAMPLES' counts were annotated
    title_pad,            \* pad given to ax.set_title ("unset" before)
    entry,                \* the arguments as they were at entry
    \* ---- module globals set by the __main__ block (lines 1031-1152)
    DATE_TYPE, EVAL_PERIOD, METRICS, VERIF_CASETYPE, LINE_TYPE, INTERP,
    VARIABLES_LIST,       \* the global VARIABLES
    FCST_LEVELS, OBS_LEVELS, DOMAINS,
    \* ---- main() (Spec)
    mpc,                  \* position in main
    date_beg, date_end,   \* locals of main, "" while unassigned
    date_hours,           \* which global main's date_hours is bound to
    metrics,              \* local metrics, <<>> while unassigned
    num,                  \* figure number, -1 while unassigned
    case_specs,           \* the case_type entry main bound, "" while unbound
    requested_var, l, domain,   \* loop indices (0 before the first iteration)
    loaded,               \* what get_preprocessed_data returned last
    main_exc,             \* exception that ended main ("" when none)
    raised_at,            \* position whose statement raised it
    log,                  \* messages given to logger.error
    loads,                \* calls of get_preprocessed_data so far
    ncalls,               \* calls of plot_time_series so far
    last_call,            \* loop indices and num of the latest call
    \* ---- the rendering part of plot_time_series, lines 245-512 (SpecRender)
    rpc,                  \* position: "setup", "detect", "legend", "loop", "done"
    pivot_metric1,        \* [index: dates, columns: model -> values] of metric 1
    pivot_metric2,        \* the same for metric 2
    model_list,           \* the local model_list at line 339
    metric1_name, metric2_name,      \* metric2_name "None" for None
    y_min_limit, y_max_limit, y_lim_lock,
    confidence_intervals,
    x_vals1, x_vals2,     \* lines 245-249
    y_min, y_max,         \* lines 250-251, 397-402
    plot_reference,       \* line 262
    plotted_reference,    \* line 301
    plotted_reference_CIs,   \* line 303
    n_mods, y_mod_min, y_mod_max,    \* lines 338, 383-396
    m,                    \* models of model_list the loop has been through
    lines,                \* lines drawn with plt.plot on the figure
    errorbars,            \* error bars drawn with plt.errorbar
    labels,               \* legend labels, in order
    \* ---- the saving part of plot_time_series (SpecSave)
    spc,                  \* position in lines 677-738
    args,                 \* the parameters and locals the saving part reads
    date_hours_savename,  \* lines 679-687
    time_period_savename, \* lines 690-693
    plot_info,            \* lines 695-701
    save_name,            \* lines 702-717
    save_subdir,          \* lines 718-721
    save_path,            \* line 724
    files                 \* paths written by fig.savefig and shutil.copy2

callVars == <<pc, df, level, heap, ref, sample_equalization, bool_success, bound,
              tables, fig, exc, stages, passed_flag, pivot_empty, saved, annotated,
              title_pad, entry>>

globalVars == <<DATE_TYPE, EVAL_PERIOD, METRICS, VERIF_CASETYPE, LINE_TYPE, INTERP,
                VARIABLES_LIST, FCST_LEVELS, OBS_LEVELS, DOMAINS>>

mainVars == <<mpc, date_beg, date_end, date_hours, metrics, num, case_specs,
              requested_var, l, domain, loaded, main_exc, raised_at, log, loads,
              ncalls, last_call>>

renderInputs == <<pivot_metric1, pivot_metric2, model_list, metric1_name,
                  metric2_name, y_min_limit, y_max_limit, y_lim_lock,
                  confidence_intervals>>

renderVars == <<rpc, renderInputs, x_vals1, x_vals2, y_min, y_max, plot_reference,
                plotted_reference, plotted_reference_CIs, n_mods, y_mod_min,
                y_mod_max, m, lines, errorbars, labels>>

saveVars == <<spc, args, date_hours_savename, time_period_savename, plot_info,
              save_name, save_subdir, save_path, files>>

vars == <<callVars, globalVars, mainVars, renderVars, saveVars>>

----------------------------------------------------------------------------
\* Bounds

MaxModels == 2      \* models that can occur in MODELS and in the data
MaxHours  == 2      \* valid / init hours that can occur
MaxRows   == 2      \* rows of the dataframe at entry

ModelNames == <<"GFS", "NAM", "RAP", "HRRR">>
HourValues == <<0, 12, 6, 18>>
Models == {ModelNames[i] : i \in 1..MaxModels}
Hours  == {HourValues[i] : i \in 1..MaxHours}
Levels == {"500", "850"}

Rows == [MODEL : Models, FCST_LEV : Levels, hour : Hours]

----------------------------------------------------------------------------
\* Helpers

SeqToSet(s) == {s[i] : i \in DOMAIN s}

\* python: [x for x in s if Keep(x)]
RECURSIVE FilterSeq(_, _)
FilterSeq(s, keep) ==
    IF s = <<>> THEN <<>>
    ELSE IF Head(s) \in keep THEN <<Head(s)>> \o FilterSeq(Tail(s), keep)
         ELSE FilterSeq(Tail(s), keep)

\* lists without repetition over a set, up to a length
DistinctSeqs(S, n) ==
    {s \in UNION {[1..k -> S] : k \in 0..n} :
        \A i, j \in DOMAIN s : i # j => s[i] # s[j]}

\* floating point values: a number, nan, inf or -inf
Num(i) == [k |-> "num", v |-> i]
NaN    == [k |-> "nan", v |-> 0]
PosInf == [k |-> "inf", v |-> 1]
NegInf == [k |-> "inf", v |-> -1]

IdleRender ==
    /\ rpc = "idle"
    /\ pivot_metric1 = <<>> /\ pivot_metric2 = <<>> /\ model_list = <<>>
    /\ metric1_name = "" /\ metric2_name = ""
    /\ y_min_limit = NaN /\ y_max_limit = NaN /\ y_lim_lock = FALSE
    /\ confidence_intervals = FALSE
    /\ x_vals1 = <<>> /\ x_vals2 = <<>> /\ y_min = NaN /\ y_max = NaN
    /\ plot_reference = <<FALSE, FALSE>>
    /\ plotted_reference = <<>> /\ plotted_reference_CIs = <<>>
    /\ n_mods = 0 /\ y_mod_min = NaN /\ y_mod_max = NaN /\ m = 0
    /\ lines = {} /\ errorbars = {} /\ labels = <<>>

\* a text is a list of pieces; the saving part has not run
IdleSave ==
    /\ spc = "idle" /\ args = <<>>
    /\ date_hours_savename = <<>> /\ time_period_savename = <<>>
    /\ plot_info = <<>> /\ save_name = <<>> /\ save_subdir = <<>>
    /\ save_path = <<>> /\ files = {}

----------------------------------------------------------------------------
\* main(), lines 741-1026

MaxMetrics   == 3    \* entries of METRICS
MaxVariables == 2    \* entries of VARIABLES_LIST

MetricNames   == <<"BIAS", "OBAR", "RMSE", "ME", "FBAR">>
VariableNames == <<"TMP", "XYZ", "HGT", "ABC">>

\* values of DOMAINS, and of FCST_LEVELS after the split at lines 961-964
DomainLists == {<<"conus">>, <<"conus", "east">>, <<"nowhere", "east">>}
LevelLists  == {<<"Z2">>, <<"Z2", "Z10">>, <<"Z2", "P500">>}

\* the contiguous parts of the first n entries of a list
Slices(names, n) == {SubSeq(names, i, j) : i \in 1..n, j \in 0..n}

\* settings.Reference: case_type and what it lists for a case type / line type
KnownCaseTypes  == {"grid2obs_sfc"}
KnownLineTypes  == {"SL1L2"}
KnownInterps    == {"NEAREST"}
var_dict        == {"TMP", "HGT"}
fcst_var_levels == {"Z2", "Z10"}
obs_var_levels  == {"Z2", "Z10"}
vx_mask_list    == {"conus", "east"}

\* str.upper() on the strings that occur
Upper(s) ==
    CASE s = "valid"   -> "VALID"
      [] s = "init"    -> "INIT"
      [] s = "bogus"   -> "BOGUS"
      [] s = "sl1l2"   -> "SL1L2"
      [] s = "mpr"     -> "MPR"
      [] s = "nearest" -> "NEAREST"
      [] s = "budget"  -> "BUDGET"
      [] s = "test"    -> "TEST"
      [] s = "obar"    -> "OBAR"
      [] s = "bias"    -> "BIAS"
      [] s = "Test"    -> "TEST"
      [] s = "Last30Days" -> "LAST30DAYS"
      [] OTHER -> s

\* the state before main() runs: the globals are set, nothing else is
IdleMain ==
    /\ mpc = "idle"
    /\ DATE_TYPE = "VALID" /\ EVAL_PERIOD = "TEST" /\ METRICS = <<>>
    /\ VERIF_CASETYPE = "grid2obs_sfc" /\ LINE_TYPE = "SL1L2" /\ INTERP = "NEAREST"
    /\ VARIABLES_LIST = <<>> /\ FCST_LEVELS = <<>> /\ OBS_LEVELS = <<>> /\ DOMAINS = <<>>
    /\ date_beg = "" /\ date_end = "" /\ date_hours = ""
    /\ metrics = <<>> /\ num = -1 /\ case_specs = ""
    /\ requested_var = 0 /\ l = 0 /\ domain = 0
    /\ loaded = "" /\ main_exc = "" /\ raised_at = "" /\ log = {}
    /\ loads = 0 /\ ncalls = 0
    /\ last_call = [requested_var |-> 0, l |-> 0, domain |-> 0, num |-> -1]

IdleCall ==
    /\ pc = "idle" /\ df = {} /\ level = "" /\ heap = <<>> /\ ref = <<>>
    /\ sample_equalization = FALSE /\ bool_success = FALSE /\ bound = {}
    /\ tables = <<>>
    /\ fig = "none" /\ exc = "" /\ stages = <<>> /\ passed_flag = {}
    /\ pivot_empty = FALSE /\ saved = {} /\ annotated = FALSE
    /\ title_pad = "unset" /\ entry = <<>>

\* main ends with exception x raised by the statement at position mpc
Raise(x) ==
    /\ mpc' = "raised"
    /\ main_exc' = x
    /\ raised_at' = mpc

\* lines 763-772: the period the dates come from
DatesFrom(period) == IF Upper(period) = "TEST" THEN "config" ELSE "preset"

\* lines 784-785: the f-string reads date_type, which is neither a local of
\* main nor a name of the module, so building the message raises NameError;
\* lines 786-787 are not reached.
InvalidDateType ==
    /\ log' = log
    /\ Raise("NameError")

\* lines 763-787
CheckDateType ==
    /\ mpc = "date_type"
    /\ IF Upper(DATE_TYPE) = "VALID"
         THEN /\ date_beg' = <<DatesFrom(EVAL_PERIOD), "valid_beg">>
              /\ date_end' = <<DatesFrom(EVAL_PERIOD), "valid_end">>
              /\ date_hours' = "VALID_HOURS"
              /\ mpc' = "metrics"
              /\ UNCHANGED <<main_exc, raised_at, log>>
         ELSE IF Upper(DATE_TYPE) = "INIT"
         THEN /\ date_beg' = <<DatesFrom(EVAL_PERIOD), "init_beg">>
              /\ date_end' = <<DatesFrom(EVAL_PERIOD), "init_end">>
              /\ date_hours' = "INIT_HOURS"
              /\ mpc' = "metrics"
              /\ UNCHANGED <<main_exc, raised_at, log>>
         ELSE /\ InvalidDateType
              /\ UNCHANGED <<date_beg, date_end, date_hours>>
    /\ UNCHANGED <<metrics, num, case_specs, requested_var, l, domain, loaded,
                   loads, ncalls, last_call>>
    /\ UNCHANGED <<globalVars, callVars, renderVars, saveVars>>

\* lines 867-870 taking the last two metrics instead of the first two
SelectMetricsLastTwo(M) ==
    IF Len(M) = 1 THEN <<M[1], "None">> ELSE SubSeq(M, Len(M) - 1, Len(M))

\* lines 867-870: (METRICS[0], None) or METRICS[:2]
SelectMetrics(M) ==
    IF Len(M) = 1 THEN <<M[1], "None">> ELSE SubSeq(M, 1, 2)

\* lines 863-882
ChooseMetrics ==
    /\ mpc = "metrics"
    /\ IF Len(METRICS) >= 1
         THEN /\ metrics' = SelectMetrics(METRICS)
              /\ mpc' = "case_type"
              /\ UNCHANGED <<main_exc, raised_at, log>>
         ELSE /\ log' = log \cup {"Received no list of metrics"}
              /\ Raise("ValueError")
              /\ UNCHANGED metrics
    /\ UNCHANGED <<date_beg, date_end, date_hours, num, case_specs, requested_var,
                   l, domain, loaded, loads, ncalls, last_call>>
    /\ UNCHANGED <<globalVars, callVars, renderVars, saveVars>>

\* lines 885-897 without the elif branch that checks the line type
CaseTypeErrorNoLineType(casetype, linetype) ==
    IF casetype \notin KnownCaseTypes THEN "case/type combination is not valid"
    ELSE ""

\* lines 885-897: the message e, "" when both checks pass
CaseTypeError(casetype, linetype) ==
    IF casetype \notin KnownCaseTypes THEN "case/type combination is not valid"
    ELSE IF Upper(linetype) \notin KnownLineTypes THEN "line_type is not valid"
    ELSE ""

\* lines 883-901
CheckCaseType ==
    /\ mpc = "case_type"
    /\ num' = 0
    /\ LET e == CaseTypeError(VERIF_CASETYPE, LINE_TYPE)
       IN  IF e = ""
             THEN /\ case_specs' = <<VERIF_CASETYPE, Upper(LINE_TYPE)>>
                  /\ mpc' = "interp"
                  /\ UNCHANGED <<main_exc, raised_at, log>>
             ELSE /\ log' = log \cup {e, "Quitting ..."}
                  /\ Raise("ValueError")
                  /\ UNCHANGED case_specs
    /\ UNCHANGED <<date_beg, date_end, date_hours, metrics, requested_var, l, domain,
                   loaded, loads, ncalls, last_call>>
    /\ UNCHANGED <<globalVars, callVars, renderVars, saveVars>>

\* lines 902-920 (an invalid metric is only warned about)
CheckInterp ==
    /\ mpc = "interp"
    /\ IF case_specs = ""
         THEN /\ Raise("UnboundLocalError")
              /\ log' = log
         ELSE IF Upper(INTERP) \notin KnownInterps
         THEN /\ log' = log \cup {"interp method is not valid", "Quitting ..."}
              /\ Raise("ValueError")
         ELSE /\ mpc' = "variables"
              /\ UNCHANGED <<main_exc, raised_at, log>>
    /\ UNCHANGED <<date_beg, date_end, date_hours, metrics, num, case_specs,
                   requested_var, l, domain, loaded, loads, ncalls, last_call>>
    /\ UNCHANGED <<globalVars, callVars, renderVars, saveVars>>

\* lines 921-968: the next requested_var; an invalid one is skipped
NextVariable ==
    /\ mpc = "variables"
    /\ IF requested_var = Len(VARIABLES_LIST)
         THEN mpc' = "done" /\ UNCHANGED <<requested_var, l>>
         ELSE /\ requested_var' = requested_var + 1
              /\ l' = 0
              /\ mpc' = IF VARIABLES_LIST[requested_var'] \in var_dict
                          THEN "levels" ELSE "variables"
    /\ UNCHANGED <<date_beg, date_end, date_hours, metrics, num, case_specs, domain,
                   loaded, main_exc, raised_at, log, loads, ncalls, last_call>>
    /\ UNCHANGED <<globalVars, callVars, renderVars, saveVars>>

\* lines 969-981: the next level. At line 979 the message reads level, which
\* is neither a local of main nor a name of the module.
NextLevel ==
    /\ mpc = "levels"
    /\ IF l = Len(FCST_LEVELS)
         THEN /\ mpc' = "variables"
              /\ UNCHANGED <<l, domain, main_exc, raised_at, log>>
         ELSE /\ l' = l + 1
              /\ domain' = 0
              /\ IF Len(FCST_LEVELS) # Len(OBS_LEVELS)
                   THEN /\ log' = log \cup {"must be lists of the same size",
                                            "Quitting ..."}
                        /\ Raise("ValueError")
                   ELSE IF \/ FCST_LEVELS[l'] \notin fcst_var_levels
                           \/ OBS_LEVELS[l'] \notin obs_var_levels
                   THEN /\ Raise("NameError")
                        /\ log' = log
                   ELSE /\ mpc' = "domains"
                        /\ UNCHANGED <<main_exc, raised_at, log>>
    /\ UNCHANGED <<date_beg, date_end, date_hours, metrics, num, case_specs,
                   requested_var, loaded, loads, ncalls, last_call>>
    /\ UNCHANGED <<globalVars, callVars, renderVars, saveVars>>

\* lines 982-989: the next domain; an invalid one is skipped
NextDomain ==
    /\ mpc = "domains"
    /\ IF domain = Len(DOMAINS)
         THEN mpc' = "levels" /\ UNCHANGED domain
         ELSE /\ domain' = domain + 1
              /\ mpc' = IF DOMAINS[domain'] \in vx_mask_list
                          THEN "load" ELSE "domains"
    /\ UNCHANGED <<date_beg, date_end, date_hours, metrics, num, case_specs,
                   requested_var, l, loaded, main_exc, raised_at, log, loads,
                   ncalls, last_call>>
    /\ UNCHANGED <<globalVars, callVars, renderVars, saveVars>>

\* lines 990-998: df_preprocessing.get_preprocessed_data gives None, an
\* empty dataframe or a dataframe with rows
LoadData ==
    /\ mpc = "load"
    /\ loads' = loads + 1
    /\ loaded' \in {"None", "empty", "rows"}
    /\ mpc' = IF loaded' = "None" THEN "domains" ELSE "plot"
    /\ UNCHANGED <<date_beg, date_end, date_hours, metrics, num, case_specs,
                   requested_var, l, domain, main_exc, raised_at, log, ncalls,
                   last_call>>
    /\ UNCHANGED <<globalVars, callVars, renderVars, saveVars>>

\* How a plot_time_series call can end (SpecCall): an empty dataframe returns
\* at lines 85-88; one with rows returns at a later empty-dataframe exit or
\* raises at line 182.
PlotTimeSeriesEnds(d) ==
    IF d = "empty" THEN {"returned"} ELSE {"returned", "raised"}

\* lines 999-1025
CallPlotTimeSeries ==
    /\ mpc = "plot"
    /\ ncalls' = ncalls + 1
    /\ last_call' = [requested_var |-> requested_var, l |-> l, domain |-> domain,
                     num |-> num]
    /\ \E end \in PlotTimeSeriesEnds(loaded) :
          IF end = "returned"
            THEN mpc' = "incr" /\ UNCHANGED <<main_exc, raised_at>>
            ELSE Raise("UnboundLocalError")
    /\ UNCHANGED <<date_beg, date_end, date_hours, metrics, num, case_specs,
                   requested_var, l, domain, loaded, log, loads>>
    /\ UNCHANGED <<globalVars, callVars, renderVars, saveVars>>

\* line 1026 left out
NumAfterCallKept(n) == n

\* line 1026: num+=1
NumAfterCall(n) == n + 1

IncrementNum ==
    /\ mpc = "incr"
    /\ num' = NumAfterCall(num)
    /\ mpc' = "domains"
    /\ UNCHANGED <<date_beg, date_end, date_hours, metrics, case_specs,
                   requested_var, l, domain, loaded, main_exc, raised_at, log,
                   loads, ncalls, last_call>>
    /\ UNCHANGED <<globalVars, callVars, renderVars, saveVars>>

Init ==
    /\ IdleCall
    /\ IdleRender
    /\ IdleSave
    /\ mpc = "date_type"
    /\ DATE_TYPE \in {"VALID", "init", "BOGUS"}
    /\ EVAL_PERIOD \in {"test", "LAST30DAYS"}
    /\ METRICS \in Slices(MetricNames, MaxMetrics)
    /\ VERIF_CASETYPE \in {"grid2obs_sfc", "bogus_sfc"}
    /\ LINE_TYPE \in {"sl1l2", "mpr"}
    /\ INTERP \in {"NEAREST", "budget"}
    /\ VARIABLES_LIST \in Slices(VariableNames, MaxVariables) \ {<<>>}
    /\ FCST_LEVELS \in LevelLists
    /\ OBS_LEVELS \in {FCST_LEVELS, FCST_LEVELS \o <<"Z2">>}
    /\ DOMAINS \in DomainLists
    /\ date_beg = "" /\ date_end = "" /\ date_hours = ""
    /\ metrics = <<>> /\ num = -1 /\ case_specs = ""
    /\ requested_var = 0 /\ l = 0 /\ domain = 0
    /\ loaded = "" /\ main_exc = "" /\ raised_at = "" /\ log = {}
    /\ loads = 0 /\ ncalls = 0
    /\ last_call = [requested_var |-> 0, l |-> 0, domain |-> 0, num |-> -1]

Next ==
    \/ CheckDateType
    \/ ChooseMetrics
    \/ CheckCaseType
    \/ CheckInterp
    \/ NextVariable
    \/ NextLevel
    \/ NextDomain
    \/ LoadData
    \/ CallPlotTimeSeries
    \/ IncrementNum

Spec == Init /\ [][Next]_vars

----------------------------------------------------------------------------
\* Properties of main() (Spec)

\* the loop indices of call a come before those of call b
Earlier(a, b) ==
    \/ a.requested_var < b.requested_var
    \/ a.requested_var = b.requested_var /\ a.l < b.l
    \/ a.requested_var = b.requested_var /\ a.l = b.l /\ a.domain < b.domain

\* C6: plot_time_series is called at most once per (variable, level, domain)
\* of the loop; num starts at 0 and goes up by exactly one after each call
\* that returned and at no other time; the k-th call receives num = k-1.
C6_FigureNumbers ==
    [][ /\ ncalls' # ncalls =>
              /\ ncalls' = ncalls + 1
              /\ last_call'.num = ncalls
              /\ Earlier(last_call, last_call')
        /\ num' # num =>
              \/ num = -1 /\ num' = 0 /\ ncalls = 0
              \/ mpc = "incr" /\ num' = num + 1
        /\ mpc = "incr" => num' = num + 1
      ]_vars

C6_Witness == ncalls = 3 /\ last_call.num = 2 /\ num = 3

\* the statement at lines 867-876 has run
MetricsChosen ==
    /\ mpc \notin {"date_type", "metrics"}
    /\ raised_at # "date_type"

C9_DateType ==
    mpc # "date_type" =>
        IF Upper(DATE_TYPE) = "VALID"
          THEN date_beg[2] = "valid_beg" /\ date_end[2] = "valid_end"
               /\ date_hours = "VALID_HOURS"
        ELSE IF Upper(DATE_TYPE) = "INIT"
          THEN date_beg[2] = "init_beg" /\ date_end[2] = "init_end"
               /\ date_hours = "INIT_HOURS"
          ELSE /\ mpc = "raised" /\ main_exc = "ValueError"
               /\ "Invalid DATE_TYPE" \in log
               /\ loads = 0

FatalConfiguration ==
    \/ VERIF_CASETYPE \notin KnownCaseTypes
    \/ Upper(LINE_TYPE) \notin KnownLineTypes
    \/ Upper(INTERP) \notin KnownInterps

\* C10: with an unknown case type, a line type not valid for it or an interp
\* not valid for both, main never calls get_preprocessed_data or
\* plot_time_series and never enters the loop; the check that finds the error
\* logs it and raises ValueError; case_specs is bound, and read, only when the
\* case type and line type checks passed.
C10_FatalConfiguration ==
    /\ FatalConfiguration =>
          /\ loads = 0 /\ ncalls = 0
          /\ mpc \in {"date_type", "metrics", "case_type", "interp", "raised"}
    /\ raised_at \in {"case_type", "interp"} =>
          /\ FatalConfiguration
          /\ main_exc = "ValueError"
          /\ "Quitting ..." \in log
    /\ case_specs # "" =>
          /\ VERIF_CASETYPE \in KnownCaseTypes
          /\ Upper(LINE_TYPE) \in KnownLineTypes
    /\ mpc \notin {"date_type", "metrics", "case_type", "raised"} => case_specs # ""

C10_Witness ==
    /\ mpc = "raised" /\ raised_at = "case_type"
    /\ VERIF_CASETYPE \in KnownCaseTypes
    /\ "line_type is not valid" \in log

----------------------------------------------------------------------------
\* plot_time_series, lines 57-738: one call

CallerObjects == {"arg_model_list", "arg_date_hours", "arg_thresh",
                  "arg_interp_pts", "arg_date_range"}
FreshObjects  == {"new_date_hours", "new_model_list"}

\* The statements of plot_time_series in source order; a position names the
\* statement that runs next.
Positions == <<"entry", "filter_level", "filter_lead", "date_hours", "filter_width",
               "process_thresh", "process_models", "equalize", "process_stats",
               "get_pivot_tables", "reindex", "check_pivots">>

PositionIndex(p) == CHOOSE i \in DOMAIN Positions : Positions[i] = p

\* the statement that follows p when p neither returns nor raises
AfterSwapped(p) ==
    CASE p = "process_thresh" -> "equalize"
      [] p = "equalize"       -> "process_models"
      [] p = "process_models" -> "process_stats"
      [] OTHER -> Positions[PositionIndex(p) + 1]

After(p) == Positions[PositionIndex(p) + 1]

Terminal == {"returned", "raised"}

HoursOf(d)  == {r.hour : r \in d}
ModelsOf(d) == {r.MODEL : r \in d}

\* the empty-dataframe exit without its return: the call goes on
EmptyExitFallsThrough(closes) ==
    /\ pc' = After(pc)
    /\ fig' = IF closes THEN "closed" ELSE fig

\* lines 85-88, 98-102, 116-120, 135-139, 148-152: the empty-dataframe exit.
\* closes says whether this exit calls plt.close(num).
EmptyExit(closes) ==
    /\ pc' = "returned"
    /\ fig' = IF closes THEN "closed" ELSE fig

\* lines 82-93
Entry ==
    /\ pc = "entry"
    /\ UNCHANGED <<globalVars, mainVars, renderVars, saveVars>>
    /\ UNCHANGED tables
    /\ IF df = {}
         THEN EmptyExit(FALSE)
         ELSE /\ fig' = "open"
              /\ pc' = After("entry")
    /\ UNCHANGED <<df, level, heap, ref, sample_equalization, bool_success, bound,
                   exc, stages, passed_flag, pivot_empty, saved, annotated,
                   title_pad, entry>>

\* line 96: df[df['FCST_LEV'].astype(str).eq(str(level))]
FilterByLevel(d, lev) == {r \in d : r.FCST_LEV = lev}

\* lines 95-102
FilterLevel ==
    /\ pc = "filter_level"
    /\ UNCHANGED <<globalVars, mainVars, renderVars, saveVars>>
    /\ UNCHANGED tables
    /\ df' = FilterByLevel(df, level)
    /\ stages' = Append(stages, "level")
    /\ IF df' = {}
         THEN EmptyExit(TRUE)
         ELSE pc' = After("filter_level") /\ fig' = fig
    /\ UNCHANGED <<level, heap, ref, sample_equalization, bool_success, bound,
                   exc, passed_flag, pivot_empty, saved, annotated, title_pad, entry>>

\* plot_util.filter_by_lead, filter_by_width and process_thresh keep some of
\* the rows: any subset can come back.
FilterResults(d) == SUBSET d

\* lines 104-107
FilterLead ==
    /\ pc = "filter_lead"
    /\ UNCHANGED <<globalVars, mainVars, renderVars, saveVars>>
    /\ UNCHANGED tables
    /\ df' \in FilterResults(df)
    /\ stages' = Append(stages, "lead")
    /\ pc' = After("filter_lead")
    /\ UNCHANGED <<level, heap, ref, sample_equalization, bool_success, bound,
                   fig, exc, passed_flag, pivot_empty, saved, annotated, title_pad,
                   entry>>

\* lines 111-114 with the list updated in place (date_hours[:] = ...)
RebindDateHoursInPlace(h, r, d) ==
    [heap |-> [h EXCEPT ![r.date_hours] = FilterSeq(h[r.date_hours], HoursOf(d))],
     ref  |-> r]

\* lines 111-114: date_hours = np.array(date_hours)[[... for x in date_hours]]
\* builds a new array and binds the local name to it.
RebindDateHours(h, r, d) ==
    [heap |-> [h EXCEPT !["new_date_hours"] = FilterSeq(h[r.date_hours], HoursOf(d))],
     ref  |-> [r EXCEPT !.date_hours = "new_date_hours"]]

\* lines 109-120
DateHours ==
    /\ pc = "date_hours"
    /\ UNCHANGED <<globalVars, mainVars, renderVars, saveVars>>
    /\ UNCHANGED tables
    /\ LET res == RebindDateHours(heap, ref, df)
       IN  heap' = res.heap /\ ref' = res.ref
    /\ IF df = {}
         THEN EmptyExit(TRUE)
         ELSE pc' = After("date_hours") /\ fig' = fig
    /\ UNCHANGED <<df, level, sample_equalization, bool_success, bound, exc, stages,
                   passed_flag, pivot_empty, saved, annotated, title_pad, entry>>

\* lines 122-125
FilterWidth ==
    /\ pc = "filter_width"
    /\ UNCHANGED <<globalVars, mainVars, renderVars, saveVars>>
    /\ UNCHANGED tables
    /\ df' \in FilterResults(df)
    /\ stages' = Append(stages, "width")
    /\ pc' = After("filter_width")
    /\ UNCHANGED <<level, heap, ref, sample_equalization, bool_success, bound,
                   fig, exc, passed_flag, pivot_empty, saved, annotated, title_pad,
                   entry>>

\* lines 127-130
ProcessThresh ==
    /\ pc = "process_thresh"
    /\ UNCHANGED <<globalVars, mainVars, renderVars, saveVars>>
    /\ UNCHANGED tables
    /\ df' \in FilterResults(df)
    /\ stages' = Append(stages, "thresh")
    /\ pc' = After("process_thresh")
    /\ UNCHANGED <<level, heap, ref, sample_equalization, bool_success, bound,
                   fig, exc, passed_flag, pivot_empty, saved, annotated, title_pad,
                   entry>>

\* line 133, plot_util.process_models: "Remove from model_list the models
\* that don't exist in the dataframe"; the result is a new list.
ProcessModelsResult(h, r, d) ==
    [df   |-> {x \in d : x.MODEL \in SeqToSet(h[r.model_list])},
     heap |-> [h EXCEPT !["new_model_list"] = FilterSeq(h[r.model_list], ModelsOf(d))],
     ref  |-> [r EXCEPT !.model_list = "new_model_list"]]

\* lines 132-139
ProcessModels ==
    /\ pc = "process_models"
    /\ UNCHANGED <<globalVars, mainVars, renderVars, saveVars>>
    /\ UNCHANGED tables
    /\ LET res == ProcessModelsResult(heap, ref, df)
       IN  df' = res.df /\ heap' = res.heap /\ ref' = res.ref
    /\ stages' = Append(stages, "models")
    /\ IF df' = {}
         THEN EmptyExit(TRUE)
         ELSE pc' = After("process_models") /\ fig' = fig
    /\ UNCHANGED <<level, sample_equalization, bool_success, bound, exc,
                   passed_flag, pivot_empty, saved, annotated, title_pad, entry>>

\* lines 146-147: if not bool_success: sample_equalization = False
FlagAfterEqualize(flag, success) == IF ~success THEN FALSE ELSE flag

\* lines 141-152
Equalize ==
    /\ pc = "equalize"
    /\ UNCHANGED <<globalVars, mainVars, renderVars, saveVars>>
    /\ UNCHANGED tables
    /\ IF sample_equalization
         THEN /\ \E d \in FilterResults(df), ok \in BOOLEAN :
                   /\ df' = d
                   /\ bool_success' = ok
                   /\ sample_equalization' = FlagAfterEqualize(sample_equalization, ok)
              /\ stages' = Append(stages, "equalize")
              /\ IF df' = {}
                   THEN EmptyExit(TRUE)
                   ELSE pc' = After("equalize") /\ fig' = fig
         ELSE /\ pc' = After("equalize")
              /\ UNCHANGED <<df, bool_success, sample_equalization, stages, fig>>
    /\ UNCHANGED <<level, heap, ref, bound, exc, passed_flag, pivot_empty, saved,
                   annotated, title_pad, entry>>

\* lines 154-168: plot_util.process_stats(..., sample_equalization=sample_equalization, ...)
ProcessStats ==
    /\ pc = "process_stats"
    /\ UNCHANGED <<globalVars, mainVars, renderVars, saveVars>>
    /\ UNCHANGED tables
    /\ passed_flag' = passed_flag \cup
            {[to |-> "process_stats", value |-> sample_equalization]}
    /\ stages' = Append(stages, "stats")
    /\ bound' = bound \cup {"df_aggregated"}
    /\ pc' = After("process_stats")
    /\ UNCHANGED <<df, level, heap, ref, sample_equalization, bool_success, fig,
                   exc, pivot_empty, saved, annotated, title_pad, entry>>

\* lines 176-178: the names bound from the result of get_pivot_tables
PivotNames == {"pivot_metric1", "pivot_metric2", "pivot_ci_lower1",
               "pivot_ci_upper1", "pivot_ci_lower2", "pivot_ci_upper2"}

\* lines 176-178: the table of the result each name is bound to; the result
\* holds the two metrics, then the bounds of the first, then of the second
TableData(n) ==
    CASE n = "pivot_metric1"   -> "metric1"
      [] n = "pivot_metric2"   -> "metric2"
      [] n = "pivot_ci_lower1" -> "ci_lower1"
      [] n = "pivot_ci_upper1" -> "ci_upper1"
      [] n = "pivot_ci_lower2" -> "ci_lower2"
      [] n = "pivot_ci_upper2" -> "ci_upper2"
      [] OTHER                 -> "counts"

\* lines 170-178
GetPivotTables ==
    /\ pc = "get_pivot_tables"
    /\ UNCHANGED <<globalVars, mainVars, renderVars, saveVars>>
    /\ passed_flag' = passed_flag \cup
            {[to |-> "get_pivot_tables", value |-> sample_equalization]}
    /\ pivot_empty' \in BOOLEAN
    /\ stages' = Append(stages, "pivot")
    /\ bound' = bound \cup PivotNames
    /\ tables' = [n \in PivotNames |-> [data |-> TableData(n), reindexed |-> FALSE]]
    /\ pc' = After("get_pivot_tables")
    /\ UNCHANGED <<df, level, heap, ref, sample_equalization, bool_success, fig,
                   exc, saved, annotated, title_pad, entry>>

\* lines 181-185: the local names read as arguments of reindex_pivot_tables
ReindexReads == {"pivot_metric2", "pivot_counts", "pivot_ci_lower1",
                 "pivot_ci_upper2", "pivot_ci_lower2"}

\* lines 182-183: the arguments of reindex_pivot_tables, in order
ReindexArguments == <<"pivot_metric2", "pivot_metric2", "pivot_counts",
                      "pivot_ci_lower1", "pivot_ci_upper2", "pivot_ci_lower2",
                      "pivot_ci_upper2">>

\* lines 186-188: the names bound from the result, in order
ReindexTargets == <<"pivot_metric1", "pivot_metric2", "pivot_counts",
                    "pivot_ci_lower1", "pivot_ci_upper1", "pivot_ci_lower2",
                    "pivot_ci_upper2">>

\* lines 181-188: the i-th name is bound to the reindexed i-th argument
ReindexBinds(t) ==
    [n \in SeqToSet(ReindexTargets) |->
        LET i == CHOOSE i \in DOMAIN ReindexTargets : ReindexTargets[i] = n
        IN  [data |-> t[ReindexArguments[i]].data, reindexed |-> TRUE]]

\* lines 180-188: pivot_counts is a local name (assigned at line 186) that is
\* read at line 182 before any assignment.
Reindex ==
    /\ pc = "reindex"
    /\ UNCHANGED <<globalVars, mainVars, renderVars, saveVars>>
    /\ IF ReindexReads \subseteq bound
         THEN /\ bound' = bound \cup {"pivot_counts"}
              /\ tables' = ReindexBinds(tables)
              /\ pc' = After("reindex")
              /\ exc' = exc
         ELSE /\ pc' = "raised"
              /\ exc' = "UnboundLocalError"
              /\ bound' = bound
              /\ tables' = tables
    /\ UNCHANGED <<df, level, heap, ref, sample_equalization, bool_success, fig,
                   stages, passed_flag, pivot_empty, saved, annotated, title_pad,
                   entry>>

InitCall ==
    /\ IdleMain
    /\ IdleRender
    /\ IdleSave
    /\ pc = "entry"
    /\ df \in {d \in SUBSET Rows : Cardinality(d) <= MaxRows}
    /\ level \in Levels
    /\ \E ml \in DistinctSeqs(Models, MaxModels), dh \in DistinctSeqs(Hours, MaxHours),
          th \in {<<>>, <<">=1">>} :
          heap = [o \in CallerObjects \cup FreshObjects |->
                    CASE o = "arg_model_list" -> ml
                      [] o = "arg_date_hours" -> dh
                      [] o = "arg_thresh"     -> th
                      [] o = "arg_interp_pts" -> <<"">>
                      [] o = "arg_date_range" -> <<"20221101", "20221130">>
                      [] OTHER -> <<>>]
    /\ ref = [model_list |-> "arg_model_list", date_hours |-> "arg_date_hours",
              thresh |-> "arg_thresh", interp_pts |-> "arg_interp_pts",
              date_range |-> "arg_date_range"]
    /\ sample_equalization \in BOOLEAN
    /\ bool_success = FALSE
    /\ bound = {}
    /\ tables = <<>>
    /\ fig = "none"
    /\ exc = ""
    /\ stages = <<>>
    /\ passed_flag = {}
    /\ pivot_empty = FALSE
    /\ saved = {}
    /\ annotated = FALSE
    /\ title_pad = "unset"
    /\ entry = [df |-> df, heap |-> heap, sample_equalization |-> sample_equalization]

NextCall ==
    \/ Entry
    \/ FilterLevel
    \/ FilterLead
    \/ DateHours
    \/ FilterWidth
    \/ ProcessThresh
    \/ ProcessModels
    \/ Equalize
    \/ ProcessStats
    \/ GetPivotTables
    \/ Reindex

SpecCall == InitCall /\ [][NextCall]_vars

----------------------------------------------------------------------------
\* plot_time_series, lines 245-529: reference detection and the model loop,
\* on pivot tables drawn from bounded sets

IsNaN(v) == v.k = "nan"
IsNum(v) == v.k = "num"
IsInf(v) == v.k = "inf"

\* position of a value that is not nan on the number line
Ord(v) == IF v.k = "num" THEN v.v ELSE v.v * 1000

\* a < b and a <= b of floating point values: false when either is nan
Lt(a, b) == ~IsNaN(a) /\ ~IsNaN(b) /\ Ord(a) < Ord(b)
Le(a, b) == ~IsNaN(a) /\ ~IsNaN(b) /\ Ord(a) <= Ord(b)

\* np.nanmin, np.nanmax of a non-empty array: nan when every entry is nan
NanMin(vals) ==
    LET S == {x \in SeqToSet(vals) : ~IsNaN(x)}
    IN  IF S = {} THEN NaN ELSE CHOOSE x \in S : \A y \in S : Ord(x) <= Ord(y)

NanMax(vals) ==
    LET S == {x \in SeqToSet(vals) : ~IsNaN(x)}
    IN  IF S = {} THEN NaN ELSE CHOOSE x \in S : \A y \in S : Ord(x) >= Ord(y)

\* lines 370-382: the entries that are not inf when there is one, else all
WithoutInf(vals) ==
    LET kept == SelectSeq(vals, LAMBDA v : v # PosInf)
    IN  IF kept # <<>> THEN kept ELSE vals

\* lines 389-392, 393-396: the running extreme over the models so far
NewModMin(mod_min, vmin) ==
    IF IsInf(mod_min) THEN vmin ELSE NanMin(<<mod_min, vmin>>)

NewModMax(mod_max, vmax) ==
    IF IsInf(mod_max) THEN vmax ELSE NanMax(<<mod_max, vmax>>)

\* lines 397-399 without the comparison with y_min_limit
NewYMinNoLimit(cur, vmin, mod_min, limit) ==
    IF Le(vmin, mod_min) THEN vmin ELSE cur

\* lines 397-399
NewYMin(cur, vmin, mod_min, limit) ==
    IF Lt(limit, vmin) /\ Le(vmin, mod_min) THEN vmin ELSE cur

\* lines 400-402
NewYMax(cur, vmax, mod_max, limit) ==
    IF Lt(vmax, limit) /\ Le(mod_max, vmax) THEN vmax ELSE cur

Columns(table) == DOMAIN table.columns

\* (pivot.T / pivot.mean(axis=1)).T == 1. at one cell: the mean skips nan;
\* the quotient is 1 only for a number that equals a non-zero mean
RatioIsOne(table, mod, d) ==
    LET v    == table.columns[mod][d]
        used == {x \in Columns(table) : ~IsNaN(table.columns[x][d])}
        RECURSIVE Sum(_)
        Sum(S) == IF S = {} THEN 0
                  ELSE LET x == CHOOSE x \in S : TRUE
                       IN  table.columns[x][d].v + Sum(S \ {x})
    IN  /\ IsNum(v)
        /\ \A x \in used : IsNum(table.columns[x][d])
        /\ Sum(used) # 0
        /\ v.v * Cardinality(used) = Sum(used)

\* lines 271, 289: np.any(...)
AnyRatioIsOne(table) ==
    \E mod \in Columns(table), d \in DOMAIN table.index : RatioIsOne(table, mod, d)

ref_metrics == {"OBAR"}

\* lines 264-281, 282-299
IsReference(name, table) ==
    /\ Upper(name) \in ref_metrics
    /\ AnyRatioIsOne(table)

\* lines 245-261
SetUp ==
    /\ rpc = "setup"
    /\ x_vals1' = pivot_metric1.index
    /\ x_vals2' = IF metric2_name # "None" THEN pivot_metric2.index ELSE <<>>
    /\ y_min' = y_min_limit
    /\ y_max' = y_max_limit
    /\ rpc' = "detect"
    /\ UNCHANGED <<renderInputs, plot_reference, plotted_reference,
                   plotted_reference_CIs, n_mods, y_mod_min, y_mod_max, m, lines,
                   errorbars, labels>>
    /\ UNCHANGED <<callVars, globalVars, mainVars, saveVars>>

\* lines 262-303
Detect ==
    /\ rpc = "detect"
    /\ plot_reference' =
          <<IsReference(metric1_name, pivot_metric1),
            metric2_name # "None" /\ IsReference(metric2_name, pivot_metric2)>>
    /\ plotted_reference' =
          IF plot_reference'[1] \/ plot_reference'[2]
            THEN <<FALSE, FALSE>> ELSE plotted_reference
    /\ plotted_reference_CIs' =
          IF (plot_reference'[1] \/ plot_reference'[2]) /\ confidence_intervals
            THEN <<FALSE, FALSE>> ELSE plotted_reference_CIs
    /\ rpc' = "legend"
    /\ UNCHANGED <<renderInputs, x_vals1, x_vals2, y_min, y_max, n_mods, y_mod_min,
                   y_mod_max, m, lines, errorbars, labels>>
    /\ UNCHANGED <<callVars, globalVars, mainVars, saveVars>>

\* lines 304-338: with two metrics the legend starts with the metric names
LegendHeader ==
    /\ rpc = "legend"
    /\ labels' = IF metric2_name # "None"
                   THEN <<Upper(metric1_name), Upper(metric2_name)>>
                   ELSE <<>>
    /\ n_mods' = 0
    /\ rpc' = "loop"
    /\ UNCHANGED <<renderInputs, x_vals1, x_vals2, y_min, y_max, plot_reference,
                   plotted_reference, plotted_reference_CIs, y_mod_min, y_mod_max,
                   m, lines, errorbars>>
    /\ UNCHANGED <<callVars, globalVars, mainVars, saveVars>>

\* lines 407-425, 431-449 with every line drawn against x_vals1
DrawnSameX(i, model, x) ==
    IF plot_reference[i]
      THEN IF plotted_reference[i] THEN {}
           ELSE {[metric |-> i, owner |-> "reference", x |-> x_vals1]}
      ELSE {[metric |-> i, owner |-> model, x |-> x_vals1]}

\* lines 407-425, 431-449 (and 451-471, 473-493 for the error bars): what is
\* drawn for metric i while the loop is at model: the reference once, or the
\* model's own line
Drawn(i, model, x) ==
    IF plot_reference[i]
      THEN IF plotted_reference[i] THEN {}
           ELSE {[metric |-> i, owner |-> "reference", x |-> x]}
      ELSE {[metric |-> i, owner |-> model, x |-> x]}

DrawnBars(i, model, x) ==
    IF plot_reference[i]
      THEN IF plotted_reference_CIs[i] THEN {}
           ELSE {[metric |-> i, owner |-> "reference", x |-> x]}
      ELSE {[metric |-> i, owner |-> model, x |-> x]}

\* lines 346-347: if str(model_list[m]) not in pivot_metric1: continue
Skipped(model) == model \notin Columns(pivot_metric1)

\* lines 339-512: one pass of the loop over the models
RenderModel ==
    /\ rpc = "loop"
    /\ m < Len(model_list)
    /\ m' = m + 1
    /\ LET model == model_list[m + 1]
           two   == metric2_name # "None"
       IN  IF Skipped(model)
             THEN UNCHANGED <<y_min, y_max, plotted_reference, plotted_reference_CIs,
                              n_mods, y_mod_min, y_mod_max, lines, errorbars, labels>>
             ELSE LET y_vals_metric1 == pivot_metric1.columns[model]
                      y_vals == IF two
                                  THEN y_vals_metric1 \o pivot_metric2.columns[model]
                                  ELSE y_vals_metric1
                      y_vals_metric_min == NanMin(WithoutInf(y_vals))
                      y_vals_metric_max == NanMax(WithoutInf(y_vals))
                  IN  /\ IF y_lim_lock
                           THEN UNCHANGED <<y_min, y_max, n_mods, y_mod_min, y_mod_max>>
                           ELSE /\ n_mods' = IF n_mods = 0 THEN 1 ELSE n_mods
                                /\ y_mod_min' =
                                      IF n_mods = 0 THEN y_vals_metric_min
                                      ELSE NewModMin(y_mod_min, y_vals_metric_min)
                                /\ y_mod_max' =
                                      IF n_mods = 0 THEN y_vals_metric_max
                                      ELSE NewModMax(y_mod_max, y_vals_metric_max)
                                /\ y_min' = NewYMin(y_min, y_vals_metric_min,
                                                    y_mod_min', y_min_limit)
                                /\ y_max' = NewYMax(y_max, y_vals_metric_max,
                                                    y_mod_max', y_max_limit)
                      /\ lines' = lines \cup Drawn(1, model, x_vals1)
                                    \cup (IF two THEN Drawn(2, model, x_vals2) ELSE {})
                      /\ plotted_reference' =
                            [i \in DOMAIN plotted_reference |->
                                plotted_reference[i] \/
                                (plot_reference[i] /\ (i = 1 \/ two))]
                      /\ errorbars' =
                            IF confidence_intervals
                              THEN errorbars \cup DrawnBars(1, model, x_vals1)
                                     \cup (IF two THEN DrawnBars(2, model, x_vals2)
                                           ELSE {})
                              ELSE errorbars
                      /\ plotted_reference_CIs' =
                            [i \in DOMAIN plotted_reference_CIs |->
                                plotted_reference_CIs[i] \/
                                (plot_reference[i] /\ (i = 1 \/ two))]
                      /\ labels' = Append(labels, model)
    /\ UNCHANGED <<rpc, renderInputs, x_vals1, x_vals2, plot_reference>>
    /\ UNCHANGED <<callVars, globalVars, mainVars, saveVars>>

\* lines 514-520: after the loop the zero line is drawn and
\* configure_dates_axis(xvals1, incr) reads xvals1, which is neither a local
\* of plot_time_series (the local is x_vals1) nor a name of the module
ConfigureAxes ==
    /\ rpc = "loop"
    /\ m = Len(model_list)
    /\ rpc' = "raised"
    /\ UNCHANGED <<renderInputs, x_vals1, x_vals2, y_min, y_max, plot_reference,
                   plotted_reference, plotted_reference_CIs, n_mods, y_mod_min,
                   y_mod_max, m, lines, errorbars, labels>>
    /\ UNCHANGED <<callVars, globalVars, mainVars, saveVars>>

Dates == <<"20221101", "20221102">>

\* the values a model can have over the two dates
ColumnValues == {<<Num(2), Num(2)>>, <<Num(0), Num(4)>>, <<Num(2), NaN>>,
                 <<PosInf, Num(3)>>}

Shift(v, by) == IF IsNum(v) THEN Num(v.v + by) ELSE v

\* the table of a second metric: the first one's values moved by by, from
\* date from on
SecondTable(table, by, from) ==
    [index   |-> SubSeq(table.index, from, Len(table.index)),
     columns |-> [mod \in Columns(table) |->
                    [d \in 1..(Len(table.index) - from + 1) |->
                        Shift(table.columns[mod][d + from - 1], by)]]]

PivotTables ==
    {[index |-> Dates, columns |-> c] :
        c \in UNION {[cols -> ColumnValues] : cols \in (SUBSET Models) \ {{}}}}

InitRender ==
    /\ IdleMain
    /\ IdleCall
    /\ IdleSave
    /\ rpc = "setup"
    /\ pivot_metric1 \in PivotTables
    /\ \E second \in {[name |-> "None",  by |-> 0,  from |-> 1],
                      [name |-> "obar",  by |-> 0,  from |-> 2],
                      [name |-> "OBAR",  by |-> -1, from |-> 1],
                      [name |-> "RMSE",  by |-> -1, from |-> 1],
                      [name |-> "RMSE",  by |-> 1,  from |-> 2]} :
          /\ metric2_name = second.name
          /\ pivot_metric2 = SecondTable(pivot_metric1, second.by, second.from)
    /\ model_list \in DistinctSeqs(Models, MaxModels) \ {<<>>}
    /\ metric1_name \in {"obar", "BIAS"}
    /\ \E limits \in {<<1, 3>>, <<-1, 5>>} :
          /\ y_min_limit = Num(limits[1])
          /\ y_max_limit = Num(limits[2])
    /\ y_lim_lock \in BOOLEAN
    /\ confidence_intervals \in BOOLEAN
    /\ x_vals1 = <<>> /\ x_vals2 = <<>> /\ y_min = NaN /\ y_max = NaN
    /\ plot_reference = <<FALSE, FALSE>>
    /\ plotted_reference = <<>> /\ plotted_reference_CIs = <<>>
    /\ n_mods = 0 /\ y_mod_min = NaN /\ y_mod_max = NaN /\ m = 0
    /\ lines = {} /\ errorbars = {} /\ labels = <<>>

NextRender ==
    \/ SetUp
    \/ Detect
    \/ LegendHeader
    \/ RenderModel
    \/ ConfigureAxes

SpecRender == InitRender /\ [][NextRender]_vars

----------------------------------------------------------------------------
\* plot_time_series, lines 677-738: naming and saving the file, on parameters
\* and locals drawn from bounded sets. A text is a list of pieces.

\* str.lower() on the pieces that occur
Lower(t) ==
    CASE t = "RMSE"       -> "rmse"
      [] t = "BIAS"       -> "bias"
      [] t = "TMP"        -> "tmp"
      [] t = "Z2"         -> "z2"
      [] t = "CONUS"      -> "conus"
      [] t = "TEST"       -> "test"
      [] t = "Test"       -> "test"
      [] t = "Last30Days" -> "last30days"
      [] t = "VALID"      -> "valid"
      [] t = "GE1"        -> "ge1"
      [] t = "GE2p5"      -> "ge2p5"
      [] t = "WIDTH4"     -> "width4"
      [] t = "F024"       -> "f024"
      [] t = "SFC_UPPER"  -> "sfc_upper"
      [] t = "00Z"        -> "00z"
      [] t = "08Z"        -> "08z"
      [] t = "12Z"        -> "12z"
      [] OTHER            -> t

\* str(text).lower()
LowerText(text) == [i \in DOMAIN text |-> Lower(text[i])]

\* sep.join(items)
RECURSIVE Join(_, _)
Join(items, sep) ==
    IF items = <<>> THEN <<>>
    ELSE IF Len(items) = 1 THEN items[1]
    ELSE items[1] \o <<sep>> \o Join(Tail(items), sep)

\* f'{date_hour:02d}Z'
TwoDigitsZ(h) ==
    CASE h = 0  -> "00Z"
      [] h = 8  -> "08Z"
      [] h = 12 -> "12Z"
      [] OTHER  -> "0" \o ToString(h) \o "Z"

\* "x and '' not in x" of a list x
Given(x) == x # <<>> /\ "" \notin SeqToSet(x)

\* lines 616-619: opt_letter and label of each requested threshold, '.' as 'p'
ThreshSavePhrase(thresh) ==
    [i \in DOMAIN thresh |->
        CASE thresh[i] = ">=1"   -> "GE1"
          [] thresh[i] = ">=2.5" -> "GE2p5"
          [] OTHER               -> thresh[i]]

\* lines 679-687
DateHoursSavename(hours) ==
    IF Len(hours) <= 8
      THEN Join([i \in DOMAIN hours |-> <<TwoDigitsZ(hours[i])>>], "_")
      ELSE Join(<<<<TwoDigitsZ(hours[1])>>, <<TwoDigitsZ(hours[Len(hours)])>>>>, "-")

\* lines 688-693 with eval_period compared as it is (eval_period == 'TEST')
TimePeriodCaseSensitive(eval_period, date_range) ==
    IF eval_period = "TEST"
      THEN <<date_range[1], "-", date_range[2]>>
      ELSE <<eval_period>>

\* lines 688-693
TimePeriod(eval_period, date_range) ==
    IF Upper(eval_period) = "TEST"
      THEN <<date_range[1], "-", date_range[2]>>
      ELSE <<eval_period>>

\* lines 677-693
SaveNames ==
    /\ spc = "names"
    /\ date_hours_savename' = DateHoursSavename(args.date_hours)
    /\ time_period_savename' = TimePeriod(args.eval_period, args.date_range)
    /\ spc' = "plot_info"
    /\ UNCHANGED <<args, plot_info, save_name, save_subdir, save_path, files>>
    /\ UNCHANGED <<callVars, globalVars, mainVars, renderVars>>

\* lines 695-701: the items that are not empty, joined by '_'
PlotInfo ==
    /\ spc = "plot_info"
    /\ plot_info' =
          Join(SelectSeq(<<<<"timeseries">>,
                           LowerText(<<args.date_type>>)
                               \o LowerText(date_hours_savename),
                           LowerText(args.frange_save_string)>>,
                         LAMBDA item : item # <<>>),
               "_")
    /\ spc' = "save_name"
    /\ UNCHANGED <<args, date_hours_savename, time_period_savename, save_name,
                   save_subdir, save_path, files>>
    /\ UNCHANGED <<callVars, globalVars, mainVars, renderVars>>

\* lines 702-714
AssembleName ==
    /\ spc = "save_name"
    /\ save_name' =
          LowerText(<<args.metric1_name>>)
          \o (IF args.metric2_name # "None"
                THEN <<"_">> \o LowerText(<<args.metric2_name>>) ELSE <<>>)
          \o (IF Given(args.thresh)
                THEN <<"_">> \o LowerText(ThreshSavePhrase(args.thresh)) ELSE <<>>)
          \o (IF Given(args.interp_pts)
                THEN <<"_">> \o LowerText(args.interp_pts_save_string) ELSE <<>>)
          \o <<".">> \o LowerText(args.var_savename)
          \o (IF args.level_savename # <<>>
                THEN <<"_">> \o LowerText(args.level_savename) ELSE <<>>)
          \o <<".">> \o LowerText(time_period_savename)
          \o <<".">> \o plot_info
          \o <<".">> \o LowerText(args.domain_save_string)
    /\ spc' = "header"
    /\ UNCHANGED <<args, date_hours_savename, time_period_savename, plot_info,
                   save_subdir, save_path, files>>
    /\ UNCHANGED <<callVars, globalVars, mainVars, renderVars>>

\* lines 716-717
AddHeader ==
    /\ spc = "header"
    /\ save_name' = IF args.save_header # ""
                      THEN <<args.save_header, ".">> \o save_name
                      ELSE save_name
    /\ spc' = "save"
    /\ UNCHANGED <<args, date_hours_savename, time_period_savename, plot_info,
                   save_subdir, save_path, files>>
    /\ UNCHANGED <<callVars, globalVars, mainVars, renderVars>>

\* lines 718-725: os.path.join puts '/' between the parts
SaveFigure ==
    /\ spc = "save"
    /\ save_subdir' = <<args.save_dir, "/">> \o LowerText(<<args.plot_group>>)
                        \o <<"/">> \o LowerText(time_period_savename)
    /\ save_path' = save_subdir' \o <<"/">> \o save_name \o <<".png">>
    /\ files' = files \cup {save_path'}
    /\ spc' = "copy"
    /\ UNCHANGED <<args, date_hours_savename, time_period_savename, plot_info,
                   save_name>>
    /\ UNCHANGED <<callVars, globalVars, mainVars, renderVars>>

\* lines 726-736
CopyToRestart ==
    /\ spc = "copy"
    /\ files' = IF args.restart_dir # ""
                  THEN files \cup
                         {<<args.restart_dir, "/">> \o LowerText(<<args.plot_group>>)
                            \o <<"/">> \o LowerText(time_period_savename)
                            \o <<"/">> \o save_name \o <<".png">>}
                  ELSE files
    /\ spc' = "close"
    /\ UNCHANGED <<args, date_hours_savename, time_period_savename, plot_info,
                   save_name, save_subdir, save_path>>
    /\ UNCHANGED <<callVars, globalVars, mainVars, renderVars>>

\* lines 737-738
CloseFigure ==
    /\ spc = "close"
    /\ spc' = "done"
    /\ UNCHANGED <<args, date_hours_savename, time_period_savename, plot_info,
                   save_name, save_subdir, save_path, files>>
    /\ UNCHANGED <<callVars, globalVars, mainVars, renderVars>>

InitSave ==
    /\ IdleMain
    /\ IdleCall
    /\ IdleRender
    /\ spc = "names"
    /\ args \in [save_header : {"", "evs"},
                 metric1_name : {"RMSE"},
                 metric2_name : {"None", "BIAS"},
                 thresh : {<<>>, <<"">>, <<">=1">>, <<">=1", ">=2.5">>},
                 interp_pts : {<<>>, <<"">>, <<"4">>},
                 interp_pts_save_string : {<<"WIDTH4">>},
                 var_savename : {<<"TMP">>},
                 level_savename : {<<>>, <<"Z2">>},
                 eval_period : {"TEST", "Test", "Last30Days"},
                 date_range : {<<"20221101", "20221130">>},
                 date_type : {"VALID"},
                 date_hours : {<<0, 12>>, <<0, 1, 2, 3, 4, 5, 6, 7, 8>>},
                 frange_save_string : {<<>>, <<"F024">>},
                 domain_save_string : {<<"CONUS">>},
                 plot_group : {"SFC_UPPER"},
                 save_dir : {"out"},
                 restart_dir : {"", "restart"}]
    /\ date_hours_savename = <<>> /\ time_period_savename = <<>>
    /\ plot_info = <<>> /\ save_name = <<>> /\ save_subdir = <<>>
    /\ save_path = <<>> /\ files = {}

NextSave ==
    \/ SaveNames
    \/ PlotInfo
    \/ AssembleName
    \/ AddHeader
    \/ SaveFigure
    \/ CopyToRestart
    \/ CloseFigure

SpecSave == InitSave /\ [][NextSave]_vars

----------------------------------------------------------------------------
\* Properties of one plot_time_series call (SpecCall)

StagesDone == SeqToSet(stages)

\* the call got past every empty-dataframe exit and has its pivot tables
PastPivoting == pc \in Terminal /\ "pivot" \in StagesDone /\ ~pivot_empty

\* C1: a call whose dataframe is non-empty at entry, after every filter and
\* after equalization, and whose pivot tables are non-empty, ends normally
\* with exactly one PNG saved.
C1_SavesOnePng ==
    PastPivoting => (pc = "returned" /\ exc = "" /\ Cardinality(saved) = 1)

\* the order of the pipeline stages, filter chain first
PipelineOrder == <<"level", "lead", "width", "thresh", "models", "equalize",
                   "stats", "pivot", "detect", "render", "save">>

Rank(s) == CHOOSE i \in DOMAIN PipelineOrder : PipelineOrder[i] = s

\* equalization is a stage of the call only when it was requested
Required(s) == s # "equalize" \/ entry.sample_equalization

\* C2: the stages of one call run in the fixed order level, lead, width,
\* thresh, models, equalization, aggregation, pivoting, detection, rendering,
\* saving: a stage runs only after every stage before it has finished, and
\* no stage runs twice.
C2_StagesInOrder ==
    \A j \in DOMAIN stages :
        /\ \A i \in 1..(j - 1) : Rank(stages[i]) < Rank(stages[j])
        /\ \A k \in 1..(Rank(stages[j]) - 1) :
              Required(PipelineOrder[k]) =>
                  \E i \in 1..(j - 1) : stages[i] = PipelineOrder[k]

C2_Witness ==
    /\ pc = "reindex"
    /\ stages = <<"level", "lead", "width", "thresh", "models", "equalize",
                  "stats", "pivot">>

\* C3: the caller's model_list, date_hours, thresh, interp_pts and date_range
\* objects hold the same elements as at entry, at every point of the call and
\* after it.
C3_ArgumentsUnchanged ==
    \A o \in CallerObjects : heap[o] = entry.heap[o]

C3_Witness ==
    /\ pc \in Terminal
    /\ ref.date_hours = "new_date_hours"
    /\ heap["new_date_hours"] # entry.heap["arg_date_hours"]
    /\ ref.model_list = "new_model_list"
    /\ heap["new_model_list"] # entry.heap["arg_model_list"]

\* C4: when equalization was requested and failed, the flag is false for the
\* rest of the call: false is what process_stats and get_pivot_tables receive,
\* no counts are annotated and the title pad is None; and a call that plots
\* has annotated the sample counts exactly when equalization was requested and
\* succeeded.
C4_SampleDisplay ==
    /\ (entry.sample_equalization /\ "equalize" \in StagesDone /\ ~bool_success) =>
          /\ ~sample_equalization
          /\ \A p \in passed_flag : p.value = FALSE
          /\ ~annotated
          /\ title_pad \in {"unset", "None"}
    /\ PastPivoting =>
          (annotated <=> (entry.sample_equalization /\ bool_success))

\* the statements that lie behind each empty-dataframe check
BehindEmptyCheck == {"filter_level", "filter_lead", "filter_width", "equalize",
                     "process_stats", "get_pivot_tables", "reindex",
                     "check_pivots"}

\* C11: a dataframe that is empty at entry, after the level filter, after the
\* lead filter, after model processing or after equalization makes the call
\* return None: no statement behind such a check runs on an empty dataframe,
\* and a call that returned saved no file and ran none of aggregation,
\* pivoting, rendering and saving; a call whose dataframe was empty at entry
\* acquired no figure and ran no stage at all.
C11_EmptyReturns ==
    /\ pc \in BehindEmptyCheck => df # {}
    /\ pc = "returned" =>
          /\ df = {}
          /\ exc = ""
          /\ saved = {}
          /\ StagesDone \cap {"stats", "pivot", "detect", "render", "save"} = {}
          /\ bound = {}
    /\ entry.df = {} /\ pc # "entry" =>
          pc = "returned" /\ fig = "none" /\ stages = <<>>

\* a call that returned at the exit behind equalization, its figure closed
C11_Witness ==
    /\ pc = "returned"
    /\ entry.df # {}
    /\ stages = <<"level", "lead", "width", "thresh", "models", "equalize">>
    /\ fig = "closed"

\* the reindex statement at lines 181-188 has run
ReindexRan == pc = "check_pivots" \/ (pc = "raised" /\ "pivot" \in StagesDone)

\* C12: after the reindex step every pivot table name is bound to the
\* reindexed table of its own data: pivot_metric1 to the first metric,
\* pivot_metric2 to the second, the confidence bounds each to their own.
C12_ReindexKeepsTables ==
    ReindexRan =>
        \A n \in PivotNames :
            tables[n] = [data |-> TableData(n), reindexed |-> TRUE]

----------------------------------------------------------------------------
\* Properties of the rendering part (SpecRender)

\* the models the loop has been through
Processed == {model_list[i] : i \in 1..m}

HasLine(model) == \E ln \in lines : ln.owner = model
HasOwnLine(model, i) == \E ln \in lines : ln.owner = model /\ ln.metric = i
HasErrorBar(model) == \E bar \in errorbars : bar.owner = model
HasLegendEntry(model) == \E i \in DOMAIN labels : labels[i] = model

\* the metrics the call draws
MetricsDrawn == IF metric2_name # "None" THEN {1, 2} ELSE {1}

TableOf(i) == IF i = 1 THEN pivot_metric1 ELSE pivot_metric2

AbsentModelsSkipped ==
    \A model \in Processed :
        model \notin Columns(pivot_metric1) =>
            ~HasLine(model) /\ ~HasErrorBar(model) /\ ~HasLegendEntry(model)

LinesOverTableIndex ==
    \A ln \in lines \cup errorbars : ln.x = TableOf(ln.metric).index

\* C5 as stated: in the rendering loop a model gets a plotted line and a
\* legend entry if and only if its name is a column of pivot_metric1, an
\* absent model gets nothing, and every line's x values are the row index of
\* its metric's pivot table
C5_LineAndLegendIffColumn ==
    rpc \in {"loop", "raised"} =>
        /\ \A model \in Processed :
              (HasLine(model) /\ HasLegendEntry(model))
                  <=> model \in Columns(pivot_metric1)
        /\ AbsentModelsSkipped
        /\ LinesOverTableIndex

\* C5, amended: a model gets a legend entry if and only if its name is a
\* column of pivot_metric1, and for each metric drawn it gets a line of its
\* own if and only if its name is a column and the metric is not drawn as
\* the single reference line; an absent model gets no line, no error bar and
\* no legend entry; every line's x values are the row index of its metric's
\* pivot table
C5_LegendIffColumn ==
    rpc \in {"loop", "raised"} =>
        /\ \A model \in Processed :
              /\ HasLegendEntry(model) <=> model \in Columns(pivot_metric1)
              /\ \A i \in {1, 2} :
                    HasOwnLine(model, i) <=>
                        /\ i \in MetricsDrawn
                        /\ model \in Columns(pivot_metric1)
                        /\ ~plot_reference[i]
        /\ AbsentModelsSkipped
        /\ LinesOverTableIndex

\* the loop is over; one model was drawn with its own line of the second
\* metric over an index that is not the first metric's, one model was
\* skipped, and the first metric was drawn as the reference line
C5_Witness ==
    /\ rpc = "raised"
    /\ m = 2
    /\ \E model \in Processed : model \notin Columns(pivot_metric1)
    /\ \E ln \in lines : ln.owner = "reference" /\ ln.metric = 1
    /\ \E model \in Processed : HasOwnLine(model, 2) /\ ~HasOwnLine(model, 1)
    /\ x_vals2 # x_vals1

\* C7: with y_lim_lock the bounds passed on to configure_stats_axis are the
\* configured limits whatever the data; without it y_min_limit <= y_min and
\* y_max <= y_max_limit after any number of models
C7_BoundsWithinLimits ==
    rpc \in {"detect", "legend", "loop", "raised"} =>
        IF y_lim_lock
          THEN y_min = y_min_limit /\ y_max = y_max_limit
          ELSE Le(y_min_limit, y_min) /\ Le(y_max, y_max_limit)

\* two models went through the loop without the lock, data of one of them
\* lies beyond the limits, and both bounds moved off the limits
C7_Witness ==
    /\ rpc = "raised"
    /\ ~y_lim_lock
    /\ m = 2
    /\ Processed \subseteq Columns(pivot_metric1)
    /\ \E model \in Processed :
          Lt(NanMin(pivot_metric1.columns[model]), y_min_limit)
    /\ y_min # y_min_limit
    /\ y_max # y_max_limit

NameOf(i) == IF i = 1 THEN metric1_name ELSE metric2_name

\* at date d the value of model mod is a number equal to the mean over the
\* models
ValueEqualsMean(table, mod, d) ==
    LET RECURSIVE Sum(_)
        Sum(S) == IF S = {} THEN 0
                  ELSE LET x == CHOOSE x \in S : TRUE
                       IN  table.columns[x][d].v + Sum(S \ {x})
    IN  /\ \A x \in Columns(table) : IsNum(table.columns[x][d])
        /\ table.columns[mod][d].v * Cardinality(Columns(table))
              = Sum(Columns(table))

\* the value does not vary from model to model at any date
SameForAllModels(table) ==
    \A d \in DOMAIN table.index, mod \in Columns(table) :
        ValueEqualsMean(table, mod, d)

\* C13: after reference detection plot_reference[i] is true if and only if
\* metric i is OBAR and at every date every model's value equals the mean
\* over the models; when it is false each model of the pivot columns gets a
\* line of its own for the metric.
C13_ReferenceIffNoVariation ==
    rpc \in {"legend", "loop", "raised"} =>
        \A i \in MetricsDrawn :
            /\ plot_reference[i] <=>
                  (Upper(NameOf(i)) = "OBAR" /\ SameForAllModels(TableOf(i)))
            /\ ~plot_reference[i] =>
                  \A model \in Processed \cap Columns(pivot_metric1) :
                      HasOwnLine(model, i)

\* the finite values of every plotted model, over the metrics drawn
PlottedValues ==
    {x \in UNION {SeqToSet(TableOf(i).columns[model]) :
                    i \in MetricsDrawn,
                    model \in Processed \cap Columns(pivot_metric1)} : IsNum(x)}

SmallestPlotted == CHOOSE x \in PlottedValues : \A y \in PlottedValues : x.v <= y.v
LargestPlotted  == CHOOSE x \in PlottedValues : \A y \in PlottedValues : x.v >= y.v

\* C14: without y_lim_lock, after the model loop y_min is the smallest finite
\* value of all plotted models when that lies above y_min_limit and
\* y_min_limit otherwise, and y_max is the largest finite value when that
\* lies below y_max_limit and y_max_limit otherwise; both are functions of
\* the set of plotted models, whatever their order in model_list.
C14_BoundsFollowData ==
    (rpc = "raised" /\ ~y_lim_lock) =>
        /\ y_min = IF PlottedValues # {} /\ Lt(y_min_limit, SmallestPlotted)
                     THEN SmallestPlotted ELSE y_min_limit
        /\ y_max = IF PlottedValues # {} /\ Lt(LargestPlotted, y_max_limit)
                     THEN LargestPlotted ELSE y_max_limit

----------------------------------------------------------------------------
\* Properties of the saving part (SpecSave)

\* a segment that is there only under a condition
Optional(present, text) == IF present THEN text ELSE <<>>

\* the time period: '<start>-<end>' for eval_period 'TEST' in any case, the
\* lower-cased eval_period otherwise
PeriodSegment ==
    IF args.eval_period \in {"TEST", "Test", "test"}
      THEN <<args.date_range[1], "-", args.date_range[2]>>
      ELSE <<Lower(args.eval_period)>>

\* C15: the file name is [save_header '.'] metric1 ['_' metric2]
\* ['_' thresholds] ['_' interp points] '.' variable ['_' level] '.' time
\* period '.' plot info '.' domain '.png', with the metric2 segment iff
\* metric2_name is not None, the threshold and interp segments iff the list is
\* non-empty and has no '' element, the level segment iff level_savename is
\* non-empty and the header iff save_header is non-empty; the time period is
\* '<start>-<end>' for eval_period 'TEST' in any case and the lower-cased
\* eval_period otherwise, and it names the output sub-directory.
C15_FileName ==
    spc \in {"copy", "close", "done"} =>
        /\ save_path =
              <<args.save_dir, "/", Lower(args.plot_group), "/">>
              \o PeriodSegment \o <<"/">>
              \o Optional(args.save_header # "", <<args.save_header, ".">>)
              \o <<Lower(args.metric1_name)>>
              \o Optional(args.metric2_name # "None",
                          <<"_", Lower(args.metric2_name)>>)
              \o Optional(args.thresh # <<>> /\ \A i \in DOMAIN args.thresh :
                                                    args.thresh[i] # "",
                          <<"_">> \o LowerText(ThreshSavePhrase(args.thresh)))
              \o Optional(args.interp_pts # <<>> /\ \A i \in DOMAIN args.interp_pts :
                                                        args.interp_pts[i] # "",
                          <<"_">> \o LowerText(args.interp_pts_save_string))
              \o <<".">> \o LowerText(args.var_savename)
              \o Optional(args.level_savename # <<>>,
                          <<"_">> \o LowerText(args.level_savename))
              \o <<".">> \o PeriodSegment
              \o <<".">> \o plot_info
              \o <<".">> \o LowerText(args.domain_save_string)
              \o <<".png">>
        /\ save_path \in files

\* a file saved with every optional segment in its name and an eval_period
\* in mixed case
C15_Witness ==
    /\ spc = "done"
    /\ args.eval_period = "Test"
    /\ save_path = <<"out", "/", "sfc_upper", "/", "20221101", "-", "20221130",
                     "/", "evs", ".", "rmse", "_", "bias", "_", "ge1", "ge2p5",
                     "_", "width4", ".", "tmp", "_", "z2", ".", "20221101", "-",
                     "20221130", ".", "timeseries", "_", "valid", "00z", "_",
                     "12z", "_", "f024", ".", "conus", ".png">>

============================================================================
